---- MODULE Spec2Model ----
(***************************************************************************)
(* Alana_LLM: the Segmentation Engine (preprocessing/chunker.py,           *)
(* TextChunker), the Retrieval Engine (query/query_engine.py, QueryEngine, *)
(* and the conversation loop of run_search.py with its token budget), the  *)
(* batched upsert of memory/vector_store.py and the graph writes of        *)
(* memory/graph_store.py with the workers of run_ingestion.py.             *)
(*                                                                         *)
(* Spec        TextChunker: constructor and chunk_pages                    *)
(* SpecRerun   chunk_pages called a second time on the same input          *)
(* SpecDedupe  QueryEngine._post_process on a candidate list               *)
(* SpecTruncate  truncate_context_by_budget on a list and a budget         *)
(* SpecSearch  QueryEngine.query, called by main's loop or directly        *)
(* SpecUpsert  VectorStore.upsert_embeddings                               *)
(* SpecGraph   GraphStore.add_knowledge, called repeatedly                 *)
(* SpecIngest  the _process_entities workers of one document               *)
(* SpecInvocations  two invocations of QueryEngine.query on one engine     *)
(*                                                                         *)
(* Scores are kept in hundredths.  The collaborators (embedder, vector     *)
(* search, re-ranking service, extract_graph) answer nondeterministically. *)
(*                                                                         *)
(* Text is a sequence of one-character strings.  Positions inside          *)
(* _split_text_by_limit are Python's 0-based offsets: text[s:e] is         *)
(* SubSeq(text, s + 1, e).  max_chars, overlap_chars and min_chars are     *)
(* character counts: max_chars >= 1, overlap_chars >= 0, min_chars >= 0.   *)
(***************************************************************************)
EXTENDS Integers, Sequences, FiniteSets, TLC

\* ------------------------------------------------------------------------
\* Bounds of the explored inputs
\* ------------------------------------------------------------------------
\* a page text is made of at most MaxPieces pieces of Pieces
MaxPieces == 5
\* max_chars ranges over 1..MaxMaxChars, overlap_chars over 0..MaxMaxChars
MaxMaxChars == 4
\* min_chars ranges over 0..MaxMinChars
MaxMinChars == 2
\* a document of more than one page has at most MaxPages pages, each taken
\* from PageTexts
MaxPages == 2
\* the page's chunk list is cut at MaxChunks entries (the paragraph loop of
\* _chunk_single_page can commit the same buffer without end)
MaxChunks == 6
\* _post_process is given at most MaxResults candidates, with at most
\* MaxChunkIds distinct chunk ids and scores in 1..MaxScore
MaxResults == 3
MaxChunkIds == 2
MaxScore == 2

\* ------------------------------------------------------------------------
\* The fixture of tests/test_chunker.py
\* ------------------------------------------------------------------------
TestMaxChars == 100
TestOverlapChars == 30
TestMinChars == 20
TestParaLen == 30
TestLongLen == 150
TestShortLen == 15
TestMidLen == 50

SP == " "
NL == "\n"
Pieces == {<<"a">>, <<SP>>, <<NL>>, <<NL, NL>>}
Separator == <<NL, NL>>

Rep(c, n) == [k \in 1..n |-> c]

\* ------------------------------------------------------------------------
\* String helpers (Python str methods, on sequences of characters)
\* ------------------------------------------------------------------------
IsSpace(c) == c \in {SP, NL}

RECURSIVE Flatten(_)
Flatten(ss) == IF ss = <<>> THEN <<>> ELSE Head(ss) \o Flatten(Tail(ss))

\* str.strip()
Strip(s) ==
    LET idx == {k \in 1..Len(s) : ~IsSpace(s[k])}
    IN  IF idx = {} THEN <<>>
        ELSE LET lo == CHOOSE k \in idx : \A j \in idx : k <= j
                 hi == CHOOSE k \in idx : \A j \in idx : k >= j
             IN  SubSeq(s, lo, hi)

\* str.split("\n\n"): leftmost, non-overlapping separators
RECURSIVE SplitSep(_)
SplitSep(s) ==
    LET hits == {k \in 1..(Len(s) - 1) : s[k] = NL /\ s[k + 1] = NL}
    IN  IF hits = {} THEN <<s>>
        ELSE LET k == CHOOSE h \in hits : \A j \in hits : h <= j
             IN  <<SubSeq(s, 1, k - 1)>> \o SplitSep(SubSeq(s, k + 2, Len(s)))

\* "\n\n".join(paragraphs)
RECURSIVE Join(_)
Join(ps) ==
    IF ps = <<>> THEN <<>>
    ELSE IF Len(ps) = 1 THEN ps[1]
    ELSE ps[1] \o Separator \o Join(Tail(ps))

\* text.rfind(' ', start, end): 0-based offset of the last space in
\* text[start:end], or -1
RFindSpace(text, start, end) ==
    LET hits == {k \in start..(end - 1) : k >= 0 /\ k < Len(text) /\ text[k + 1] = SP}
    IN  IF hits = {} THEN -1
        ELSE CHOOSE k \in hits : \A j \in hits : k >= j

Min(a, b) == IF a <= b THEN a ELSE b

\* str(page_number)
RECURSIVE IntToStr(_)
IntToStr(n) ==
    LET digit == <<"0", "1", "2", "3", "4", "5", "6", "7", "8", "9">>
    IN  IF n < 10 THEN <<digit[n + 1]>>
        ELSE IntToStr(n \div 10) \o <<digit[(n % 10) + 1]>>

\* ------------------------------------------------------------------------
\* State
\* ------------------------------------------------------------------------
VARIABLES
    pc,             \* where the caller of TextChunker stands
    args,           \* the arguments the constructor was called with
    chunker,        \* the TextChunker object: max_chars, overlap_chars, min_chars
    raised,         \* the exception that left the last call, or "none"
    pages,          \* chunk_pages: the argument pages
    source_name,    \* chunk_pages: the argument source_name
    p,              \* chunk_pages: pages taken by "for page in pages"
    chunks,         \* chunk_pages: the list chunks
    paragraphs,     \* _chunk_single_page: paragraphs
    i,              \* _chunk_single_page: i (0-based)
    current_paras,  \* _chunk_single_page: current_paras
    current_len,    \* _chunk_single_page: current_len
    page_chunks,    \* _chunk_single_page: its local list chunks
    start,          \* _split_text_by_limit: start (0-based)
    blocks,         \* _split_text_by_limit: blocks
    windows,        \* history: the [start, end) windows of the running slicing
    origin,         \* history: for each entry of page_chunks, where it came from
    dropped,        \* history: paragraph indices of the page's discarded buffers
    last,           \* history: the step taken last
    run,            \* how many times chunk_pages was called on this chunker
    first_chunks,   \* what the first call returned
    q_pc,           \* where the caller of _post_process stands
    results,        \* _post_process: the argument results
    unique_results  \* _post_process: the list returned

chunkerVars == <<pc, args, chunker, raised, pages, source_name, p, chunks, paragraphs, i, current_paras, current_len, page_chunks, start, blocks, windows, origin, dropped, last, run, first_chunks>>

queryVars == <<q_pc, results, unique_results>>

VARIABLES
    m_pc,            \* run_search: where truncate_context_by_budget or main's loop stands
    raw_contexts,    \* main: raw_contexts, the argument contexts of truncate_context_by_budget
    max_tokens,      \* truncate_context_by_budget: the argument max_tokens
    taken,           \* truncate_context_by_budget: items taken by "for item in contexts"
    selected_blocks, \* truncate_context_by_budget: selected_blocks
    used_tokens,     \* truncate_context_by_budget: used_tokens
    context_text,    \* main: context_text, what truncate_context_by_budget returned
    shown            \* main: what the loop did with the question

searchVars == <<m_pc, raw_contexts, max_tokens, taken, selected_blocks, used_tokens, context_text, shown>>

VARIABLES
    e_pc,             \* where the call of QueryEngine.query stands
    engine,           \* the QueryEngine object: top_k, max_context_chars
    question,         \* query: the argument question
    embed_calls,      \* history: calls of embedder.embed_query made by this query
    search_calls,     \* history: calls of vector_store.search made by this query
    initial_top_k,    \* the number of candidates asked of vector_store.search
    initial_results,  \* query: initial_results
    rerank_call,      \* history: how the call of the re-ranking service went
    response_scores,  \* the scores of the last response of the re-ranking service
    reranked_results, \* query: reranked_results
    result,           \* what query returned
    e_raised          \* the exception that left query, or "none"

engineVars == <<e_pc, engine, question, embed_calls, search_calls, initial_top_k, initial_results, rerank_call, response_scores, reranked_results, result, e_raised>>

VARIABLES
    u_pc,             \* where the call of VectorStore.upsert_embeddings stands
    store,            \* the VectorStore object: vector_dim
    embedded_chunks,  \* upsert_embeddings: the argument chunks
    batch_size,       \* upsert_embeddings: the argument batch_size
    batch_start,      \* upsert_embeddings: i of "for i in range(0, total, batch_size)"
    collection,       \* the points of the collection, by chunk id
    written,          \* history: the chunk ids this call has upserted
    u_raised          \* the exception that left upsert_embeddings, or "none"

upsertVars == <<u_pc, store, embedded_chunks, batch_size, batch_start, collection, written, u_raised>>

VARIABLES
    entities,         \* GraphStore: the rows of the table entities, in rowid order
    relations,        \* GraphStore: the rows of the table relations, in rowid order
    sqlite_sequence,  \* GraphStore: the AUTOINCREMENT counters of the two tables
    now,              \* CURRENT_TIMESTAMP
    g_args,           \* add_knowledge: the arguments of the last call
    applied,          \* history: the arguments add_knowledge has been called with
    tasks,            \* _process_document_pages: the submitted _process_entities tasks
    started,          \* ThreadPoolExecutor: how many tasks a worker has taken
    running,          \* ThreadPoolExecutor: the tasks inside _process_entities
    inferring,        \* the running tasks inside self.llm.generate_answer
    completed         \* history: the tasks in the order their add_knowledge committed

graphVars == <<entities, relations, sqlite_sequence, now, g_args, applied, tasks, started, running, inferring, completed>>

memoryVars == <<upsertVars, graphVars>>

\* two invocations of query() on one QueryEngine
VARIABLES
    shared,           \* the QueryEngine object and its collaborators
    frames            \* the local variables of each invocation of query()

invocationVars == <<shared, frames>>

restVars == <<searchVars, engineVars, memoryVars, invocationVars>>

NoChunker == [max_chars |-> -1, overlap_chars |-> -1, min_chars |-> -1]

\* ------------------------------------------------------------------------
\* Inputs
\* ------------------------------------------------------------------------
PieceSeqs(n) == UNION {[1..k -> Pieces] : k \in 0..n}
Texts(n) == {Flatten(f) : f \in PieceSeqs(n)}

SmallConfigs == [max_chars : 1..MaxMaxChars, overlap_chars : 0..MaxMaxChars, min_chars : 0..MaxMinChars]
TestConfigs == {[max_chars |-> TestMaxChars, overlap_chars |-> TestOverlapChars, min_chars |-> TestMinChars]}

Page(n, t) == [page_number |-> n, text |-> t]

\* one page of up to MaxPieces pieces, or up to MaxPages pages of PageTexts
PageTexts == {<<>>, <<SP>>, <<"a">>, <<"a", SP, "a">>, <<"a", NL, NL, "a">>}
RECURSIVE PageLists(_)
PageLists(n) ==
    IF n = 0 THEN {<<>>}
    ELSE {Append(ps, Page(n, t)) : ps \in {q \in PageLists(n - 1) : Len(q) = n - 1}, t \in PageTexts} \cup PageLists(n - 1)
SmallPageLists == {<<Page(1, t)>> : t \in Texts(MaxPieces)} \cup PageLists(MaxPages)

\* tests/test_chunker.py: test_overlap_logic, test_paragraph_too_long,
\* test_min_chars_logic
TestOverlapText == Rep("a", TestParaLen) \o Separator \o Rep("b", TestParaLen) \o Separator \o Rep("c", TestParaLen) \o Separator \o Rep("d", TestParaLen)
TestLongText == Rep("a", TestLongLen)
TestMinText == Rep("a", TestShortLen) \o Separator \o Rep("b", TestMidLen)
TestPageLists == {<<Page(1, TestOverlapText)>>, <<Page(1, TestLongText)>>, <<Page(1, TestMinText)>>}

SourceNames == {<<"d">>}

\* ------------------------------------------------------------------------
\* TextChunker: the pure parts
\* ------------------------------------------------------------------------
\* mutant of ConfigRejected: overlap_chars = max_chars is let through
ConfigRejected_OnlyGreater(max_chars, overlap_chars) == overlap_chars > max_chars

\* __init__: the guard that raises ValueError
ConfigRejected(max_chars, overlap_chars) == overlap_chars >= max_chars

\* mutant of SplitParagraphs: blank paragraphs are kept
SplitParagraphs_KeepBlank(text) ==
    LET parts == SplitSep(text)
    IN  [k \in 1..Len(parts) |-> Strip(parts[k])]

\* _split_paragraphs
SplitParagraphs(text) ==
    LET parts == SplitSep(text)
        stripped == [k \in 1..Len(parts) |-> Strip(parts[k])]
    IN  SelectSeq(stripped, LAMBDA q : q # <<>>)

\* hashlib.sha256(...).hexdigest(): the digest stands for its message
Sha256(message) == <<"sha256", message>>

\* mutant of ChunkId: the id is salted with the number of the call
ChunkId_PerCall(text, page_number, src) == Sha256(IntToStr(run) \o src \o <<":">> \o IntToStr(page_number) \o <<":">> \o text)

\* _build_chunk: the id, from f"{source_name}:{page_number}:{text}"
ChunkId(text, page_number, src) == Sha256(src \o <<":">> \o IntToStr(page_number) \o <<":">> \o text)

\* _build_chunk
BuildChunk(text, page_number, src) ==
    [chunk_id |-> ChunkId(text, page_number, src),
     page_number |-> page_number,
     text |-> text,
     char_count |-> Len(text),
     source_name |-> src]

\* mutant of CommitAccepts: a buffer of exactly min_chars is refused
CommitAccepts_Above(paras) == paras # <<>> /\ Len(Join(paras)) > chunker.min_chars

\* _commit_chunk: the test that lets a buffer become a chunk
CommitAccepts(paras) == paras # <<>> /\ ~(Len(Join(paras)) < chunker.min_chars)

\* _commit_chunk: the list after the call, and the value returned
CommitChunk(list, paras, page_number, src) ==
    IF CommitAccepts(paras)
    THEN [chunks |-> Append(list, BuildChunk(Join(paras), page_number, src)), committed |-> TRUE]
    ELSE [chunks |-> list, committed |-> FALSE]

\* _build_overlap: the loop over reversed(paragraphs), k paragraphs left
RECURSIVE OverlapLoop(_, _, _, _)
OverlapLoop(paras, k, overlap_paras, overlap_len) ==
    IF k = 0 THEN [paras |-> overlap_paras, len |-> overlap_len]
    ELSE LET para_len == Len(paras[k]) + (IF overlap_paras # <<>> THEN 2 ELSE 0)
         IN  IF overlap_len + para_len > chunker.overlap_chars
             THEN [paras |-> overlap_paras, len |-> overlap_len]
             ELSE OverlapLoop(paras, k - 1, <<paras[k]>> \o overlap_paras, overlap_len + para_len)

\* _build_overlap
BuildOverlap(paras) == OverlapLoop(paras, Len(paras), <<>>, 0)

\* mutant of AddedLen: the separator is not counted
AddedLen_NoSeparator(para_len, paras) == para_len

\* _chunk_single_page: added_len
AddedLen(para_len, paras) == para_len + (IF paras # <<>> THEN 2 ELSE 0)

\* mutant of AfterFlush: the overlap is built from a discarded buffer too
AfterFlush_AlwaysOverlap(committed, paras) == BuildOverlap(paras)

\* _chunk_single_page: the buffer after a flush on overflow
AfterFlush(committed, paras) ==
    IF committed THEN BuildOverlap(paras) ELSE [paras |-> <<>>, len |-> 0]

\* mutant of WindowEnd: the paragraph is taken whole
WindowEnd_WholeText(text, s, limit) == Len(text)

\* _split_text_by_limit: the end of the window that starts at s
WindowEnd(text, s, limit) ==
    LET end == Min(s + limit, Len(text))
        last_space == RFindSpace(text, s, end)
    IN  IF end < Len(text) /\ last_space # -1 /\ last_space > s THEN last_space ELSE end

\* mutant of NextStart: the next window begins one character after the end
\* of this one
NextStart_SkipOne(s, end, overlap) == end + 1

\* mutant of NextStart: no guard against a window that does not advance
NextStart_NoGuard(s, end, overlap) == end - overlap

\* _split_text_by_limit: the start of the next window
NextStart(s, end, overlap) ==
    LET next_start == end - overlap
    IN  IF next_start <= s THEN end ELSE next_start

\* text[s:e]
Slice(text, s, e) == IF e <= s THEN <<>> ELSE SubSeq(text, s + 1, e)

\* ------------------------------------------------------------------------
\* TextChunker: the steps
\* ------------------------------------------------------------------------
PageNumber == pages[p].page_number
Para == paragraphs[i + 1]

pageLocals == <<paragraphs, i, current_paras, current_len, page_chunks, origin, dropped>>
sliceLocals == <<start, blocks, windows>>
callVars == <<pages, source_name, p, chunks>>
objectVars == <<args, chunker, raised, run, first_chunks>>

\* the paragraph indices (0-based) held by the buffer: the Len(current_paras)
\* paragraphs before paragraph i
BufferIdx == (i - Len(current_paras))..(i - 1)

ChunkerInit ==
    /\ pc = "new"
    /\ args = NoChunker
    /\ chunker = NoChunker
    /\ raised = "none"
    /\ pages = <<>>
    /\ source_name = <<>>
    /\ p = 0
    /\ chunks = <<>>
    /\ paragraphs = <<>>
    /\ i = 0
    /\ current_paras = <<>>
    /\ current_len = 0
    /\ page_chunks = <<>>
    /\ start = 0
    /\ blocks = <<>>
    /\ windows = <<>>
    /\ origin = <<>>
    /\ dropped = {}
    /\ last = "none"
    /\ run = 0
    /\ first_chunks = <<>>

\* no call of _post_process is under way
QueryIdle ==
    /\ q_pc = "idle"
    /\ results = <<>>
    /\ unique_results = <<>>

\* run_search is not running
SearchIdle ==
    /\ m_pc = "idle"
    /\ raw_contexts = <<>>
    /\ max_tokens = 0
    /\ taken = 0
    /\ selected_blocks = <<>>
    /\ used_tokens = 0
    /\ context_text = <<>>
    /\ shown = "none"

NoEngine == [top_k |-> 0, max_context_chars |-> 0]
NoResult == [question |-> <<>>, contexts |-> <<>>, context_text |-> <<>>]

\* no QueryEngine has been constructed
EngineIdle ==
    /\ e_pc = "new"
    /\ engine = NoEngine
    /\ question = <<>>
    /\ embed_calls = 0
    /\ search_calls = 0
    /\ initial_top_k = 0
    /\ initial_results = <<>>
    /\ rerank_call = "none"
    /\ response_scores = <<>>
    /\ reranked_results = <<>>
    /\ result = NoResult
    /\ e_raised = "none"

NoStore == [vector_dim |-> 0]

\* no VectorStore has been constructed
UpsertIdle ==
    /\ u_pc = "new"
    /\ store = NoStore
    /\ embedded_chunks = <<>>
    /\ batch_size = 0
    /\ batch_start = 0
    /\ collection = {}
    /\ written = <<>>
    /\ u_raised = "none"

NoArgs == [graph |-> [entities |-> <<>>, relations |-> <<>>], source_doc |-> <<>>, page_number |-> 0]

\* GraphStore._init_db has created the empty tables; no task is submitted
GraphIdle ==
    /\ entities = <<>>
    /\ relations = <<>>
    /\ sqlite_sequence = [entities |-> 0, relations |-> 0]
    /\ now = 0
    /\ g_args = NoArgs
    /\ applied = {}
    /\ tasks = <<>>
    /\ started = 0
    /\ running = {}
    /\ inferring = {}
    /\ completed = <<>>

\* no invocation of query() is under way
NoShared == [engine |-> NoEngine]
NoFrame == [pc |-> "idle", question |-> <<>>, initial_results |-> <<>>, reranked_results |-> <<>>, result |-> NoResult, raised |-> "none"]
InvocationsIdle ==
    /\ shared = NoShared
    /\ frames = <<>>

RestIdle == SearchIdle /\ EngineIdle /\ UpsertIdle /\ GraphIdle /\ InvocationsIdle

Init == ChunkerInit /\ QueryIdle /\ RestIdle

\* TextChunker(max_chars, overlap_chars, min_chars)
Construct ==
    /\ pc = "new"
    /\ \E cfg \in SmallConfigs \cup TestConfigs :
        /\ args' = cfg
        /\ IF ConfigRejected(cfg.max_chars, cfg.overlap_chars)
           THEN /\ raised' = "ValueError"
                /\ pc' = "failed"
                /\ UNCHANGED chunker
           ELSE /\ chunker' = cfg
                /\ pc' = "ready"
                /\ UNCHANGED raised
    /\ last' = "Construct"
    /\ UNCHANGED <<queryVars, restVars, callVars, pageLocals, sliceLocals, run, first_chunks>>

\* chunk_pages(pages, source_name): entry
ChunkPages ==
    /\ pc = "ready"
    /\ \E ps \in (IF chunker \in TestConfigs THEN TestPageLists ELSE SmallPageLists) : pages' = ps
    /\ \E src \in SourceNames : source_name' = src
    /\ p' = 0
    /\ chunks' = <<>>
    /\ run' = 1
    /\ pc' = "pages"
    /\ last' = "ChunkPages"
    /\ UNCHANGED <<queryVars, restVars, args, chunker, raised, first_chunks, pageLocals, sliceLocals>>

\* mutant of ChunkSinglePage: the buffer is not emptied between pages
ChunkSinglePage_KeepsBuffer ==
    /\ pc = "pages"
    /\ p < Len(pages)
    /\ p' = p + 1
    /\ paragraphs' = SplitParagraphs(pages[p + 1].text)
    /\ page_chunks' = <<>>
    /\ i' = 0
    /\ origin' = <<>>
    /\ dropped' = {}
    /\ pc' = "loop"
    /\ last' = "ChunkSinglePage"
    /\ UNCHANGED <<queryVars, restVars, objectVars, pages, source_name, chunks, sliceLocals, current_paras, current_len>>

\* chunk_pages: the next page of the for loop; _chunk_single_page: entry
ChunkSinglePage ==
    /\ pc = "pages"
    /\ p < Len(pages)
    /\ p' = p + 1
    /\ paragraphs' = SplitParagraphs(pages[p + 1].text)
    /\ page_chunks' = <<>>
    /\ current_paras' = <<>>
    /\ current_len' = 0
    /\ i' = 0
    /\ origin' = <<>>
    /\ dropped' = {}
    /\ pc' = "loop"
    /\ last' = "ChunkSinglePage"
    /\ UNCHANGED <<queryVars, restVars, objectVars, pages, source_name, chunks, sliceLocals>>

\* _chunk_single_page: a paragraph longer than max_chars; the pending buffer
\* is flushed and _split_text_by_limit is entered
OversizedParagraph ==
    /\ pc = "loop"
    /\ i < Len(paragraphs)
    /\ Len(Para) > chunker.max_chars
    /\ LET c == CommitChunk(page_chunks, current_paras, PageNumber, source_name)
       IN  /\ page_chunks' = c.chunks
           /\ origin' = IF c.committed THEN Append(origin, [kind |-> "buffer", idx |-> BufferIdx, dropped_before |-> dropped]) ELSE origin
           /\ dropped' = IF c.committed THEN dropped ELSE dropped \cup BufferIdx
    /\ current_paras' = <<>>
    /\ current_len' = 0
    /\ start' = 0
    /\ blocks' = <<>>
    /\ windows' = <<>>
    /\ pc' = "slice"
    /\ last' = "OversizedParagraph"
    /\ UNCHANGED <<queryVars, restVars, objectVars, callVars, paragraphs, i>>

\* _split_text_by_limit: one turn of "while start < text_len"
SplitStep ==
    /\ pc = "slice"
    /\ start < Len(Para)
    /\ LET end == WindowEnd(Para, start, chunker.max_chars)
           block == Strip(Slice(Para, start, end))
       IN  /\ blocks' = IF block # <<>> THEN Append(blocks, block) ELSE blocks
           /\ windows' = Append(windows, [start |-> start, end |-> end])
           /\ start' = NextStart(start, end, chunker.overlap_chars)
    /\ last' = "SplitStep"
    /\ UNCHANGED <<queryVars, restVars, pc, objectVars, callVars, pageLocals>>

\* _split_text_by_limit returns; _chunk_single_page appends one chunk per block
SplitReturn ==
    /\ pc = "slice"
    /\ ~(start < Len(Para))
    /\ page_chunks' = page_chunks \o [k \in 1..Len(blocks) |-> BuildChunk(blocks[k], PageNumber, source_name)]
    /\ origin' = origin \o [k \in 1..Len(blocks) |-> [kind |-> "forced", idx |-> {i}, dropped_before |-> dropped]]
    /\ i' = i + 1
    /\ pc' = "loop"
    /\ last' = "SplitReturn"
    /\ UNCHANGED <<queryVars, restVars, objectVars, callVars, paragraphs, current_paras, current_len, dropped, sliceLocals>>

\* _chunk_single_page: the paragraph fits the buffer
AppendParagraph ==
    /\ pc = "loop"
    /\ i < Len(paragraphs)
    /\ ~(Len(Para) > chunker.max_chars)
    /\ LET added_len == AddedLen(Len(Para), current_paras)
       IN  /\ current_len + added_len <= chunker.max_chars
           /\ current_paras' = Append(current_paras, Para)
           /\ current_len' = current_len + added_len
    /\ i' = i + 1
    /\ last' = "AppendParagraph"
    /\ UNCHANGED <<queryVars, restVars, pc, objectVars, callVars, paragraphs, page_chunks, origin, dropped, sliceLocals>>

\* _chunk_single_page: the paragraph overflows the buffer; the buffer is
\* flushed and the paragraph is retried (i stays)
FlushBuffer ==
    /\ pc = "loop"
    /\ i < Len(paragraphs)
    /\ ~(Len(Para) > chunker.max_chars)
    /\ ~(current_len + AddedLen(Len(Para), current_paras) <= chunker.max_chars)
    /\ Len(page_chunks) < MaxChunks
    /\ LET c == CommitChunk(page_chunks, current_paras, PageNumber, source_name)
           next == AfterFlush(c.committed, current_paras)
       IN  /\ page_chunks' = c.chunks
           /\ origin' = IF c.committed THEN Append(origin, [kind |-> "buffer", idx |-> BufferIdx, dropped_before |-> dropped]) ELSE origin
           /\ dropped' = IF c.committed THEN dropped ELSE dropped \cup BufferIdx
           /\ current_paras' = next.paras
           /\ current_len' = next.len
           /\ last' = IF c.committed THEN "FlushCommitted" ELSE "FlushDropped"
    /\ UNCHANGED <<queryVars, restVars, pc, objectVars, callVars, paragraphs, i, sliceLocals>>

\* _chunk_single_page: the final commit and the return; chunk_pages extends
\* its list
FinishPage ==
    /\ pc = "loop"
    /\ ~(i < Len(paragraphs))
    /\ LET c == IF current_paras # <<>>
                THEN CommitChunk(page_chunks, current_paras, PageNumber, source_name)
                ELSE [chunks |-> page_chunks, committed |-> FALSE]
       IN  /\ page_chunks' = c.chunks
           /\ origin' = IF c.committed THEN Append(origin, [kind |-> "buffer", idx |-> BufferIdx, dropped_before |-> dropped]) ELSE origin
           /\ dropped' = IF c.committed THEN dropped ELSE dropped \cup BufferIdx
           /\ chunks' = chunks \o c.chunks
    /\ pc' = "pages"
    /\ last' = "FinishPage"
    /\ UNCHANGED <<queryVars, restVars, objectVars, pages, source_name, p, paragraphs, i, current_paras, current_len, sliceLocals>>

\* chunk_pages: return chunks
ReturnChunks ==
    /\ pc = "pages"
    /\ ~(p < Len(pages))
    /\ pc' = "done"
    /\ first_chunks' = IF run = 1 THEN chunks ELSE first_chunks
    /\ last' = "ReturnChunks"
    /\ UNCHANGED <<queryVars, restVars, args, chunker, raised, run, callVars, pageLocals, sliceLocals>>

\* chunk_pages called once more on the same chunker with equal arguments
ChunkPagesAgain ==
    /\ pc = "done"
    /\ run = 1
    /\ run' = 2
    /\ p' = 0
    /\ chunks' = <<>>
    /\ pc' = "pages"
    /\ last' = "ChunkPagesAgain"
    /\ UNCHANGED <<queryVars, restVars, args, chunker, raised, first_chunks, pages, source_name, pageLocals, sliceLocals>>

Next ==
    \/ Construct
    \/ ChunkPages
    \/ ChunkSinglePage
    \/ OversizedParagraph
    \/ SplitStep
    \/ SplitReturn
    \/ AppendParagraph
    \/ FlushBuffer
    \/ FinishPage
    \/ ReturnChunks

vars == <<chunkerVars, queryVars, restVars>>

Spec == Init /\ [][Next]_vars

SpecRerun == Init /\ [][Next \/ ChunkPagesAgain]_vars

\* ------------------------------------------------------------------------
\* Properties of the Segmentation Engine
\* ------------------------------------------------------------------------
Range(seq) == {seq[k] : k \in 1..Len(seq)}

\* the paragraph loop is where it commits the buffer, rebuilds the same
\* buffer as the overlap and retries the same paragraph: it never leaves it
LoopsForever ==
    /\ pc = "loop"
    /\ i < Len(paragraphs)
    /\ ~(Len(Para) > chunker.max_chars)
    /\ ~(current_len + AddedLen(Len(Para), current_paras) <= chunker.max_chars)
    /\ CommitAccepts(current_paras)
    /\ BuildOverlap(current_paras) = [paras |-> current_paras, len |-> current_len]

\* MaxChunks stops no call that would return: FlushBuffer is held back only
\* where the loop never ends
CutOnlyWhereLooping ==
    (pc = "loop" /\ i < Len(paragraphs) /\ Len(page_chunks) >= MaxChunks) => (ENABLED AppendParagraph \/ ENABLED OversizedParagraph \/ LoopsForever)

\* every chunk built so far, in the page's list or in chunk_pages' list
AllChunks == Range(chunks) \cup Range(page_chunks)

\* the paragraphs of the page with the (0-based) indices idx, in order
ParasAt(idx) == [k \in 1..Cardinality(idx) |-> paragraphs[(CHOOSE m \in idx : \A j \in idx : m <= j) + k]]

FlushSteps == {"FlushCommitted", "FlushDropped", "OversizedParagraph", "FinishPage"}

\* C2: a flushed buffer becomes a chunk exactly when its paragraphs joined
\* by the 2-character separator have at least min_chars characters, whatever
\* the length of each paragraph; so every chunk committed from the buffer has
\* char_count >= min_chars
C2_CommitIffJoinedReachesMinChars ==
    [][/\ (last' \in FlushSteps /\ current_paras # <<>>) =>
            IF Len(Join(current_paras)) >= chunker.min_chars
            THEN page_chunks' = Append(page_chunks, BuildChunk(Join(current_paras), PageNumber, source_name))
            ELSE page_chunks' = page_chunks /\ BufferIdx \subseteq dropped'
       /\ \A k \in 1..Len(origin') : origin'[k].kind = "buffer" => page_chunks'[k].char_count >= chunker.min_chars
       /\ (pc' = "done" /\ pages = <<Page(1, TestMinText)>>) => chunks' = <<BuildChunk(TestMinText, 1, source_name)>>
      ]_vars

\* C2 witness: a committed buffer that holds a paragraph shorter than
\* min_chars
C2_Witness ==
    /\ last = "FinishPage"
    /\ \E k \in 1..Len(origin) :
        /\ origin[k].kind = "buffer"
        /\ page_chunks[k].char_count >= chunker.min_chars
        /\ \E m \in origin[k].idx : Len(paragraphs[m + 1]) < chunker.min_chars

\* C3: the constructor raises ValueError and leaves no chunker exactly when
\* overlap_chars >= max_chars; otherwise the chunker holds the three
\* arguments as given
C3_ConstructorRejectsOverlap ==
    pc # "new" =>
        IF args.overlap_chars >= args.max_chars
        THEN raised = "ValueError" /\ chunker = NoChunker /\ pc = "failed"
        ELSE raised = "none" /\ chunker = args

\* C3 witness: the constructor has refused overlap_chars = max_chars
C3_Witness == pc = "failed" /\ raised = "ValueError" /\ args.overlap_chars = args.max_chars

LongestSuffix(buf, budget) ==
    LET Suffix(k) == SubSeq(buf, Len(buf) - k + 1, Len(buf))
        fit == {k \in 0..Len(buf) : Len(Join(Suffix(k))) <= budget}
    IN  Suffix(CHOOSE k \in fit : \A j \in fit : k >= j)

\* the buffer committed last, after a flush on overflow
LastCommitted == ParasAt(origin[Len(origin)].idx)

\* after a flush on overflow that committed, the buffer is the longest
\* suffix of whole paragraphs of the committed buffer that fits overlap_chars
SeedIsLongestSuffix ==
    last = "FlushCommitted" =>
        /\ current_paras = LongestSuffix(LastCommitted, chunker.overlap_chars)
        /\ current_len = Len(Join(current_paras))

\* C5: after a flush on overflow that committed, the buffer is the longest
\* suffix of whole paragraphs of the committed buffer that fits
\* overlap_chars, and the overflowing paragraph is appended after it; four
\* paragraphs of 30 characters with 100/30/20 give the chunks {1,2,3} and
\* {3,4}
C5_ParagraphFollowsOverlapSeed ==
    /\ SeedIsLongestSuffix
    /\ last = "FlushCommitted" =>
        current_len + AddedLen(Len(Para), current_paras) <= chunker.max_chars
    /\ (pc = "done" /\ pages = <<Page(1, TestOverlapText)>>) =>
        chunks = <<BuildChunk(Rep("a", TestParaLen) \o Separator \o Rep("b", TestParaLen) \o Separator \o Rep("c", TestParaLen), 1, source_name),
                   BuildChunk(Rep("c", TestParaLen) \o Separator \o Rep("d", TestParaLen), 1, source_name)>>

C7_DiscardCarriesNothing ==
    /\ last \in {"FlushDropped", "OversizedParagraph"} => current_paras = <<>> /\ current_len = 0
    /\ pc \in {"loop", "slice"} => BufferIdx \cap dropped = {}
    /\ pc = "slice" => i \notin dropped
    /\ \A k \in 1..Len(origin) : origin[k].idx \cap origin[k].dropped_before = {}

\* C7 witness: a buffer was discarded on overflow whose last paragraph would
\* have fitted overlap_chars
C7_Witness ==
    /\ last = "FlushDropped"
    /\ (i - 1) \in dropped
    /\ Len(paragraphs[i]) <= chunker.overlap_chars

\* the chunks _chunk_single_page appended for the blocks of the slicing that
\* has just returned
ForcedChunks == SubSeq(page_chunks, Len(page_chunks) - Len(blocks) + 1, Len(page_chunks))

Blank(text) == \A k \in 1..Len(text) : IsSpace(text[k])

\* C9: chunk_pages raises nothing; an empty page list gives no chunk, and a
\* page whose text is empty or whitespace only gives no paragraph and no chunk
C9_EmptyInputNoChunks ==
    /\ pc \in {"pages", "loop", "slice", "done"} => raised = "none"
    /\ (pc = "done" /\ pages = <<>>) => chunks = <<>>
    /\ (pc \in {"loop", "slice"} /\ Blank(pages[p].text)) => paragraphs = <<>> /\ page_chunks = <<>>
    /\ (last = "FinishPage" /\ Blank(pages[p].text)) => page_chunks = <<>>
    /\ (pc = "done" /\ \A k \in 1..Len(pages) : Blank(pages[k].text)) => chunks = <<>>

\* C9 witness: a call has returned the chunks of its second page alone, the
\* first being whitespace
C9_Witness ==
    /\ pc = "done"
    /\ Len(pages) = 2
    /\ pages[1].text # <<>> /\ Blank(pages[1].text)
    /\ chunks # <<>>
    /\ \A k \in 1..Len(chunks) : chunks[k].page_number = 2

\* ------------------------------------------------------------------------
\* QueryEngine._post_process
\* ------------------------------------------------------------------------
\* Python's None
None == <<"None">>

\* the candidates VectorStore.search returns: score and chunk_id (None when
\* the payload has no original_id), and a candidate with no chunk_id key
ChunkIdValues == {<<"c", n>> : n \in 1..MaxChunkIds} \cup {None}
Candidates == [chunk_id : ChunkIdValues, score : 1..MaxScore] \cup [score : 1..MaxScore]
CandidateLists == UNION {[1..n -> Candidates] : n \in 0..MaxResults}

\* dict.get(key) with the default None
Get(r, key) == IF key \in DOMAIN r THEN r[key] ELSE None

\* _post_process: the loop "for r in results", from the k-th candidate on
RECURSIVE PostProcessLoop(_, _, _, _)
PostProcessLoop(rs, k, seen, unique) ==
    IF k > Len(rs) THEN unique
    ELSE LET cid == Get(rs[k], "chunk_id")
         IN  IF cid \in seen
             THEN PostProcessLoop(rs, k + 1, seen, unique)
             ELSE PostProcessLoop(rs, k + 1, seen \cup {cid}, Append(unique, rs[k]))

\* the k-th smallest element of a set of positions
RECURSIVE Nth(_, _)
Nth(set, k) ==
    LET least == CHOOSE m \in set : \A j \in set : m <= j
    IN  IF k = 1 THEN least ELSE Nth(set \ {least}, k - 1)

\* mutant of PostProcess: of equal chunk ids the last candidate is kept
PostProcess_KeepLast(rs) ==
    LET keep == {k \in 1..Len(rs) : \A j \in (k + 1)..Len(rs) : Get(rs[j], "chunk_id") # Get(rs[k], "chunk_id")}
    IN  [k \in 1..Cardinality(keep) |-> rs[Nth(keep, k)]]

\* _post_process
PostProcess(rs) == PostProcessLoop(rs, 1, {}, <<>>)

\* a candidate list reaches _post_process
DedupeInit ==
    /\ ChunkerInit
    /\ RestIdle
    /\ q_pc = "call"
    /\ results \in CandidateLists
    /\ unique_results = <<>>

\* _post_process(results)
PostProcessCall ==
    /\ q_pc = "call"
    /\ unique_results' = PostProcess(results)
    /\ q_pc' = "done"
    /\ UNCHANGED <<chunkerVars, restVars, results>>

SpecDedupe == DedupeInit /\ [][PostProcessCall]_vars

\* the positions of results that hold the first candidate of their chunk id
FirstOccurrences(rs) == {k \in 1..Len(rs) : \A j \in 1..(k - 1) : Get(rs[j], "chunk_id") # Get(rs[k], "chunk_id")}

\* C10: _post_process returns the candidates that are the first of their
\* chunk id, in the order of the input: a subsequence of the input in which
\* no chunk id occurs twice and every chunk id of the input occurs once
C10_DedupeKeepsFirstOccurrences ==
    q_pc = "done" =>
        LET keep == FirstOccurrences(results)
        IN  /\ Len(unique_results) = Cardinality(keep)
            /\ \A k \in 1..Len(unique_results) : unique_results[k] = results[Nth(keep, k)]
            /\ \A a, b \in 1..Len(unique_results) :
                a # b => Get(unique_results[a], "chunk_id") # Get(unique_results[b], "chunk_id")
            /\ {Get(unique_results[k], "chunk_id") : k \in 1..Len(unique_results)} = {Get(results[k], "chunk_id") : k \in 1..Len(results)}

\* C10 witness: a later candidate with another score was dropped for a
\* chunk id seen before, and two candidates were kept
C10_Witness ==
    /\ q_pc = "done"
    /\ Len(unique_results) = 2
    /\ Len(results) = 3
    /\ Get(results[3], "chunk_id") = Get(results[1], "chunk_id")
    /\ results[3] # results[1]
    /\ unique_results = <<results[1], results[2]>>

\* ------------------------------------------------------------------------
\* run_search.py: the token budget of the context
\* ------------------------------------------------------------------------
\* truncate_context_by_budget is given at most MaxContexts contexts and a
\* budget in 0..MaxTokens
MaxContexts == 3
MaxTokens == 14

\* the texts of the contexts: no word, one word, two words
ContextTexts == {<<>>, <<"a">>, <<"a", SP, "a">>}

\* the dicts handed to truncate_context_by_budget: with text and
\* page_number, without text, without page_number
TruncateItems == [text : ContextTexts, page_number : {1, 12}] \cup [text : {<<"a">>}] \cup [page_number : {1}]
TruncateLists == UNION {[1..n -> TruncateItems] : n \in 0..MaxContexts}

\* estimate_tokens: len(text.split()), the words of text
EstimateTokens(text) == Cardinality({k \in 1..Len(text) : ~IsSpace(text[k]) /\ (k = 1 \/ IsSpace(text[k - 1]))})

\* f"--- [Página {page}] ---\n{text}", text and page read with
\* item.get("text", "") and item.get("page_number", "?")
FormattedBlock(item) ==
    LET text == IF "text" \in DOMAIN item THEN item.text ELSE <<>>
        page == IF "page_number" \in DOMAIN item THEN IntToStr(item.page_number) ELSE <<"?">>
    IN  <<"-", "-", "-", SP, "[", "P", "á", "g", "i", "n", "a", SP>> \o page \o <<"]", SP, "-", "-", "-", NL>> \o text

\* mutant of OverBudget: the budget is tested before the block is counted
OverBudget_BeforeCounting(used, block_tokens, budget) == used > budget

\* "if used_tokens + block_tokens > max_tokens"
OverBudget(used, block_tokens, budget) == used + block_tokens > budget

\* a list of contexts and a budget reach truncate_context_by_budget
TruncateInit ==
    /\ ChunkerInit
    /\ QueryIdle
    /\ EngineIdle
    /\ UpsertIdle
    /\ GraphIdle
    /\ InvocationsIdle
    /\ m_pc = "truncate"
    /\ raw_contexts \in TruncateLists
    /\ max_tokens \in 0..MaxTokens
    /\ taken = 0
    /\ selected_blocks = <<>>
    /\ used_tokens = 0
    /\ context_text = <<>>
    /\ shown = "none"

\* "for item in contexts": the block of the next item fits and is selected
TruncateSelect ==
    /\ m_pc = "truncate"
    /\ taken < Len(raw_contexts)
    /\ LET formatted_block == FormattedBlock(raw_contexts[taken + 1])
           block_tokens == EstimateTokens(formatted_block)
       IN  /\ ~OverBudget(used_tokens, block_tokens, max_tokens)
           /\ selected_blocks' = Append(selected_blocks, formatted_block)
           /\ used_tokens' = used_tokens + block_tokens
    /\ taken' = taken + 1
    /\ UNCHANGED <<chunkerVars, queryVars, invocationVars, engineVars, memoryVars, m_pc, raw_contexts, max_tokens, context_text, shown>>

\* the loop ends, at the end of the list or with "break" at the first block
\* over the budget, and the selected blocks are joined and returned
TruncateReturn ==
    /\ m_pc = "truncate"
    /\ \/ taken = Len(raw_contexts)
       \/ /\ taken < Len(raw_contexts)
          /\ OverBudget(used_tokens, EstimateTokens(FormattedBlock(raw_contexts[taken + 1])), max_tokens)
    /\ context_text' = Join(selected_blocks)
    /\ m_pc' = "truncated"
    /\ UNCHANGED <<chunkerVars, queryVars, invocationVars, engineVars, memoryVars, raw_contexts, max_tokens, taken, selected_blocks, used_tokens, shown>>

TruncateNext == TruncateSelect \/ TruncateReturn

SpecTruncate == TruncateInit /\ [][TruncateNext]_vars

\* the formatted blocks of the first n contexts, joined
PrefixText(n) == Join([k \in 1..n |-> FormattedBlock(raw_contexts[k])])

\* the length of the longest prefix of the contexts whose joined blocks are
\* estimated within the budget
LongestPrefix ==
    LET within == {n \in 0..Len(raw_contexts) : EstimateTokens(PrefixText(n)) <= max_tokens}
    IN  CHOOSE n \in within : \A m \in within : m <= n

\* C11: truncate_context_by_budget returns the joined formatted blocks of
\* the longest prefix of the contexts whose token estimate is within
\* max_tokens: the estimate of the returned text is at most max_tokens, and
\* no context after the first one that does not fit is in it
C11_TruncateReturnsLongestPrefix ==
    m_pc = "truncated" =>
        /\ context_text = PrefixText(LongestPrefix)
        /\ EstimateTokens(context_text) <= max_tokens
        /\ Len(selected_blocks) = LongestPrefix
        /\ \A k \in 1..Len(selected_blocks) : selected_blocks[k] = FormattedBlock(raw_contexts[k])

\* C11 witness: the second of three blocks did not fit, the third alone
\* would have fitted in what was left, and only the first was returned
C11_Witness ==
    /\ m_pc = "truncated"
    /\ Len(raw_contexts) = 3
    /\ Len(selected_blocks) = 1
    /\ used_tokens + EstimateTokens(FormattedBlock(raw_contexts[3])) <= max_tokens
    /\ context_text = FormattedBlock(raw_contexts[1])

\* ------------------------------------------------------------------------
\* query/query_engine.py: QueryEngine.query, and the loop of run_search.main
\* that calls it
\* ------------------------------------------------------------------------
\* vector_store.search returns at most MaxHits candidates
MaxHits == 3

\* QueryEngine.__init__: the default of max_context_chars
DefaultMaxContextChars == 4000
\* run_search.main: the settings of the token budget
N_CTX == 4096
TOKEN_BUDGET == [system |-> 300, question |-> 100, answer |-> 512]
MAX_CONTEXT_TOKENS == N_CTX - TOKEN_BUDGET.system - TOKEN_BUDGET.question - TOKEN_BUDGET.answer
\* run_search.main: top_k of its QueryEngine
MainTopK == 5

\* the questions: empty, whitespace only, a word
Questions == {<<>>, <<SP>>, <<"q">>}
BlankQuestion(q) == Strip(q) = <<>>

\* the chunks of the indexed document: TextChunk objects as _build_chunk
\* makes them, the id abbreviated
SourceName == <<"s", ".", "p", "d", "f">>
IndexedChunk(c) ==
    [chunk_id |-> <<"c", c>>,
     page_number |-> IF c = 1 THEN 1 ELSE 12,
     text |-> IF c = 1 THEN <<"a">> ELSE <<"a", SP, "a">>,
     char_count |-> IF c = 1 THEN 1 ELSE 3,
     source_name |-> SourceName]

\* embed_chunks: EmbeddedChunk(chunk_id, page_number, text, embedding)
EmbedChunk(chunk, emb) ==
    [chunk_id |-> chunk.chunk_id,
     page_number |-> chunk.page_number,
     text |-> chunk.text,
     embedding |-> emb]

\* PointStruct(id, vector, payload); the id is uuid5 of the chunk id
Point(chunk) ==
    [id |-> <<"uuid5", chunk.chunk_id>>,
     vector |-> chunk.embedding,
     payload |-> [original_id |-> chunk.chunk_id, page_number |-> chunk.page_number, text |-> chunk.text]]

\* VectorStore.search: the dict made of a point found and its score
SearchResult(pt, score) ==
    [score |-> score,
     chunk_id |-> pt.payload.original_id,
     page_number |-> pt.payload.page_number,
     text |-> pt.payload.text]

\* the candidates vector_store.search returns: what the payload that
\* upsert_embeddings wrote for a chunk gives, and the similarity score, in
\* hundredths
HitScores == {35, 90}
Hit(c, s) == SearchResult(Point(EmbedChunk(IndexedChunk(c), <<0>>)), s)
Hits == {Hit(c, s) : c \in 1..2, s \in HitScores}
HitLists == UNION {[1..n -> Hits] : n \in 0..MaxHits}

\* the scores of the re-ranking service, in hundredths
RerankScores == {-1050, 512}

\* how requests.post and raise_for_status fail: requests.RequestException
RequestFailures == {"ConnectionError", "Timeout", "HTTPError"}
\* the bodies of a 200 response that are not {"scores": one per document}
MalformedBodies == {"no_scores", "short_scores"}

\* sorted(rs, key=lambda x: x[key], reverse=True): stable, of equal keys
\* the earlier element first
RECURSIVE SortedDesc(_, _)
SortedDesc(rs, key) ==
    IF rs = <<>> THEN <<>>
    ELSE LET best == CHOOSE k \in 1..Len(rs) :
                         /\ \A j \in 1..Len(rs) : rs[j][key] <= rs[k][key]
                         /\ \A j \in 1..(k - 1) : rs[j][key] < rs[k][key]
             rest == [j \in 1..(Len(rs) - 1) |-> IF j < best THEN rs[j] ELSE rs[j + 1]]
         IN  <<rs[best]>> \o SortedDesc(rest, key)

\* "for i, res in enumerate(results): res['rerank_score'] = scores[i]"
WithRerankScores(rs, scores) == [k \in 1..Len(rs) |-> [rerank_score |-> scores[k]] @@ rs[k]]

\* mutant of RerankSorted: the scores are attached and the candidates are
\* left in the order of the search
RerankSorted_Unsorted(rs, scores) == WithRerankScores(rs, scores)

\* _rerank_results, the service answered with one score per document
RerankSorted(rs, scores) == SortedDesc(WithRerankScores(rs, scores), "rerank_score")

\* mutant of RerankFallback: the candidates are returned as the search gave them
RerankFallback_Unsorted(rs) == rs

\* _rerank_results, "except requests.RequestException"
RerankFallback(rs) == SortedDesc(rs, "score")

\* reranked_results[:self.top_k]
Take(rs, k) == SubSeq(rs, 1, Min(k, Len(rs)))

\* f"{relevance_score:.2f}" of a score in hundredths
Format2f(h) ==
    LET a == IF h < 0 THEN -h ELSE h
    IN  (IF h < 0 THEN <<"-">> ELSE <<>>) \o IntToStr(a \div 100) \o <<".">> \o IntToStr((a % 100) \div 10) \o IntToStr(a % 10)

Intro == <<"C", "o", "n", "t", "e", "x", "t", "o", SP, "r", "e", "c", "u", "p", "e", "r", "a", "d", "o", SP, "d", "o", "s", SP, "d", "o", "c", "u", "m", "e", "n", "t", "o", "s", ":", NL>>

\* f"### Fonte: {file_name} | Página {page} | {score_type}: {relevance_score:.2f}"
Header(ctx) ==
    LET file_name == IF "file_name" \in DOMAIN ctx THEN ctx.file_name ELSE <<"d", "e", "s", "c", "o", "n", "h", "e", "c", "i", "d", "o">>
        page == IF "page_number" \in DOMAIN ctx THEN IntToStr(ctx.page_number) ELSE <<"?">>
        relevance_score == IF "rerank_score" \in DOMAIN ctx THEN ctx.rerank_score ELSE IF "score" \in DOMAIN ctx THEN ctx.score ELSE 0
        score_type == IF "rerank_score" \in DOMAIN ctx THEN <<"R", "e", "l", "e", "v", "â", "n", "c", "i", "a">> ELSE <<"S", "i", "m", "i", "l", "a", "r", "i", "d", "a", "d", "e">>
    IN  <<"#", "#", "#", SP, "F", "o", "n", "t", "e", ":", SP>> \o file_name \o <<SP, "|", SP, "P", "á", "g", "i", "n", "a", SP>> \o page \o <<SP, "|", SP>> \o score_type \o <<":", SP>> \o Format2f(relevance_score)

\* f"{header}\n{text}", text stripped
Block(ctx) == Header(ctx) \o <<NL>> \o Strip(IF "text" \in DOMAIN ctx THEN ctx.text ELSE <<>>)

\* _build_context_text: the loop "for ctx in contexts", from the k-th on
RECURSIVE BuildContextLoop(_, _, _, _, _)
BuildContextLoop(contexts, k, bs, total_chars, max_context_chars) ==
    IF k > Len(contexts) THEN bs
    ELSE IF Strip(IF "text" \in DOMAIN contexts[k] THEN contexts[k].text ELSE <<>>) = <<>>
         THEN BuildContextLoop(contexts, k + 1, bs, total_chars, max_context_chars)
    ELSE LET block == Block(contexts[k])
         IN  IF total_chars + Len(block) > max_context_chars THEN bs
             ELSE BuildContextLoop(contexts, k + 1, Append(bs, block), total_chars + Len(block), max_context_chars)

\* _build_context_text
BuildContextText(contexts, max_context_chars) == Join(BuildContextLoop(contexts, 1, <<Intro>>, Len(Intro), max_context_chars))

\* "initial_top_k = 20"
InitialTopK == 20

\* the values of top_k and max_context_chars: the ones of run_search.main,
\* a top_k that cuts the candidates, a top_k as large as the number of
\* candidates asked for, a budget for the intro alone and one for the intro
\* and the shortest block
TopKs == {1, 2, MainTopK, InitialTopK}
ContextBudgets == {Len(Intro), Len(Intro) + Len(Block(Hit(1, 35))), DefaultMaxContextChars}
\* the token budgets of main: the one of its settings, and one for the
\* block of a one-word text
TokenBudgets == {EstimateTokens(FormattedBlock(Hit(1, 35))), MAX_CONTEXT_TOKENS}

queryLocals == <<initial_results, rerank_call, response_scores, reranked_results, result, e_raised>>
truncateLocals == <<max_tokens, taken, selected_blocks, used_tokens, context_text>>

\* QueryEngine(embedder, vector_store, top_k, score_threshold, max_context_chars)
NewEngine ==
    /\ e_pc = "new"
    /\ \E k \in TopKs, m \in ContextBudgets : engine' = [top_k |-> k, max_context_chars |-> m]
    /\ e_pc' = "idle"
    /\ UNCHANGED <<chunkerVars, queryVars, invocationVars, searchVars, memoryVars, question, embed_calls, search_calls, initial_top_k, queryLocals>>

\* query(question) is entered
EnterQuery(q) ==
    /\ e_pc \in {"idle", "returned"}
    /\ question' = q
    /\ e_pc' = "embed"
    /\ embed_calls' = 0
    /\ search_calls' = 0
    /\ initial_top_k' = 0
    /\ initial_results' = <<>>
    /\ rerank_call' = "none"
    /\ response_scores' = <<>>
    /\ reranked_results' = <<>>
    /\ result' = NoResult
    /\ e_raised' = "none"
    /\ UNCHANGED <<chunkerVars, queryVars, invocationVars, memoryVars, engine>>

\* a caller other than main calls query_engine.query(question)
Query ==
    /\ m_pc = "idle"
    /\ \E q \in Questions : EnterQuery(q)
    /\ UNCHANGED searchVars

\* main: the question read is stripped, is not empty, and
\* query_engine.query(question) is called
MainAsk ==
    /\ m_pc \in {"idle", "done"}
    /\ \E q \in Questions : Strip(q) # <<>> /\ EnterQuery(Strip(q))
    /\ m_pc' = "query"
    /\ raw_contexts' = <<>>
    /\ max_tokens' = 0
    /\ taken' = 0
    /\ selected_blocks' = <<>>
    /\ used_tokens' = 0
    /\ context_text' = <<>>
    /\ shown' = "none"

\* _embed_query: self.embedder.embed_query(question) returns a vector, or
\* raises (TextEmbedder defines no embed_query: AttributeError)
EmbedQuery ==
    /\ e_pc = "embed"
    /\ embed_calls' = embed_calls + 1
    /\ \/ e_pc' = "search" /\ UNCHANGED e_raised
       \/ e_pc' = "raised" /\ e_raised' = "AttributeError"
    /\ UNCHANGED <<chunkerVars, queryVars, invocationVars, searchVars, memoryVars, engine, question, search_calls, initial_top_k, initial_results, rerank_call, response_scores, reranked_results, result>>

\* vector_store.search(query_embedding, 20, score_threshold), and the return
\* of the empty result "if not initial_results"
Search ==
    /\ e_pc = "search"
    /\ search_calls' = search_calls + 1
    /\ initial_top_k' = InitialTopK
    /\ \E rs \in {hs \in HitLists : Len(hs) <= InitialTopK} :
        /\ initial_results' = rs
        /\ IF rs = <<>>
           THEN /\ result' = [question |-> question, contexts |-> <<>>, context_text |-> <<>>]
                /\ e_pc' = "returned"
           ELSE /\ e_pc' = "rerank"
                /\ UNCHANGED result
    /\ UNCHANGED <<chunkerVars, queryVars, invocationVars, searchVars, memoryVars, engine, question, embed_calls, rerank_call, response_scores, reranked_results, e_raised>>

\* _rerank_results, the service answers one score per document
RerankOk ==
    /\ e_pc = "rerank"
    /\ rerank_call' = "ok"
    /\ response_scores' \in [1..Len(initial_results) -> RerankScores]
    /\ reranked_results' = RerankSorted(initial_results, response_scores')
    /\ e_pc' = "assemble"
    /\ UNCHANGED <<chunkerVars, queryVars, invocationVars, searchVars, memoryVars, engine, question, embed_calls, search_calls, initial_top_k, initial_results, result, e_raised>>

\* _rerank_results, requests.post or raise_for_status raises
RerankRequestFails ==
    /\ e_pc = "rerank"
    /\ rerank_call' \in RequestFailures
    /\ reranked_results' = RerankFallback(initial_results)
    /\ e_pc' = "assemble"
    /\ UNCHANGED <<chunkerVars, queryVars, invocationVars, searchVars, memoryVars, engine, question, embed_calls, search_calls, initial_top_k, initial_results, response_scores, result, e_raised>>

\* _rerank_results, the body of the response has no "scores" (KeyError at
\* response.json()['scores']) or fewer scores than documents (IndexError at
\* scores[i]): neither is a requests.RequestException
RerankBodyMalformed ==
    /\ e_pc = "rerank"
    /\ \E body \in MalformedBodies :
        /\ rerank_call' = body
        /\ e_raised' = IF body = "no_scores" THEN "KeyError" ELSE "IndexError"
    /\ e_pc' = "raised"
    /\ UNCHANGED <<chunkerVars, queryVars, invocationVars, searchVars, memoryVars, engine, question, embed_calls, search_calls, initial_top_k, initial_results, response_scores, reranked_results, result>>

\* query, from "final_results = reranked_results[:self.top_k]" to the return
Assemble ==
    /\ e_pc = "assemble"
    /\ LET final_results == Take(reranked_results, engine.top_k)
           contexts == PostProcess(final_results)
       IN  result' = [question |-> question, contexts |-> contexts, context_text |-> BuildContextText(contexts, engine.max_context_chars)]
    /\ e_pc' = "returned"
    /\ UNCHANGED <<chunkerVars, queryVars, invocationVars, searchVars, memoryVars, engine, question, embed_calls, search_calls, initial_top_k, initial_results, rerank_call, response_scores, reranked_results, e_raised>>

\* mutant of NoContexts: the fallback is never shown
NoContexts_Never(contexts) == FALSE

\* main: "if not raw_contexts"
NoContexts(contexts) == contexts = <<>>

\* main: raw_contexts = search_result.get("contexts", []); without contexts
\* the fallback message is printed and the loop continues, else
\* truncate_context_by_budget(raw_contexts, MAX_CONTEXT_TOKENS) is called
MainReceive ==
    /\ m_pc = "query"
    /\ e_pc = "returned"
    /\ raw_contexts' = result.contexts
    /\ IF NoContexts(result.contexts)
       THEN /\ shown' = "fallback"
            /\ m_pc' = "done"
            /\ UNCHANGED max_tokens
       ELSE /\ m_pc' = "truncate"
            /\ max_tokens' \in TokenBudgets
            /\ UNCHANGED shown
    /\ UNCHANGED <<chunkerVars, queryVars, invocationVars, engineVars, memoryVars, taken, selected_blocks, used_tokens, context_text>>

\* main: the exception of query is not caught and ends the loop
MainRaise ==
    /\ m_pc = "query"
    /\ e_pc = "raised"
    /\ m_pc' = "raised"
    /\ UNCHANGED <<chunkerVars, queryVars, invocationVars, engineVars, memoryVars, raw_contexts, truncateLocals, shown>>

\* main: llm.generate_answer(question, context_text, ...) is called and its
\* answer, or its error, is printed
Generate ==
    /\ m_pc = "truncated"
    /\ e_pc = "returned"
    /\ shown' = "answer"
    /\ m_pc' = "done"
    /\ UNCHANGED <<chunkerVars, queryVars, invocationVars, engineVars, memoryVars, raw_contexts, truncateLocals>>

SearchNext ==
    \/ NewEngine
    \/ Query
    \/ MainAsk
    \/ EmbedQuery
    \/ Search
    \/ RerankOk
    \/ RerankRequestFails
    \/ RerankBodyMalformed
    \/ Assemble
    \/ MainReceive
    \/ MainRaise
    \/ TruncateSelect
    \/ TruncateReturn
    \/ Generate

SpecSearch == Init /\ [][SearchNext]_vars

\* C12 as claimed: the context_text query returns (the intro line, the
\* blocks and the separators that join them) is never longer than
\* max_context_chars
C12_ContextTextWithinBudget ==
    e_pc = "returned" => Len(result.context_text) <= engine.max_context_chars

\* C13: when the call of the re-ranking service raises (connection failure,
\* timeout, HTTP error status), query does not raise and returns; no
\* returned context carries a rerank_score, and the contexts are candidates
\* of the search in the order of their similarity score, highest first
C13_RerankFailureFallsBackToSimilarity ==
    rerank_call \in RequestFailures =>
        /\ e_raised = "none"
        /\ e_pc \in {"assemble", "returned"}
        /\ e_pc = "returned" =>
            LET contexts == result.contexts
            IN  /\ contexts # <<>>
                /\ \A k \in 1..Len(contexts) : "rerank_score" \notin DOMAIN contexts[k]
                /\ \A k \in 1..Len(contexts) : \E j \in 1..Len(initial_results) : contexts[k] = initial_results[j]
                /\ \A a, b \in 1..Len(contexts) : a < b => contexts[a].score >= contexts[b].score
                /\ \A j \in 1..Len(initial_results) : contexts[1].score >= initial_results[j].score

\* C13 witness: the call timed out, the search had put a lower score first,
\* and query returned two contexts, the higher score first
C13_Witness ==
    /\ rerank_call = "Timeout"
    /\ e_pc = "returned"
    /\ Len(result.contexts) = 2
    /\ initial_results[1].score < initial_results[2].score
    /\ result.contexts[1].score > result.contexts[2].score

\* C14 as claimed: however the call of the re-ranking service goes wrong,
\* query does not raise
C14_RerankNeverFailsQuery ==
    rerank_call \notin {"none", "ok"} => e_raised = "none" /\ e_pc # "raised"

\* C15: when the search returns no candidate, query returns
\* {question, contexts = [], context_text = ""} and does not raise, and the
\* loop of main shows the fallback message without generating an answer
C15_EmptySearchGivesEmptyResult ==
    (search_calls = 1 /\ initial_results = <<>>) =>
        /\ e_pc = "returned"
        /\ e_raised = "none"
        /\ result = [question |-> question, contexts |-> <<>>, context_text |-> <<>>]
        /\ m_pc \in {"idle", "query", "done"}
        /\ m_pc = "done" => shown = "fallback" /\ taken = 0 /\ context_text = <<>>

\* C15 witness: the search returned nothing to the query of main, and main
\* showed the fallback
C15_Witness ==
    /\ search_calls = 1
    /\ initial_results = <<>>
    /\ m_pc = "done"
    /\ shown = "fallback"

\* C16 as claimed: when there are candidates and no block fits the budget,
\* the context_text assembled is the empty string and main shows the
\* fallback message instead of generating an answer
C16_NoBlockFitsIsNoContext ==
    /\ (e_pc = "returned" /\ result.contexts # <<>> /\ \A k \in 1..Len(result.contexts) : Len(Intro) + Len(Block(result.contexts[k])) > engine.max_context_chars)
            => result.context_text = <<>>
    /\ (m_pc = "done" /\ raw_contexts # <<>> /\ selected_blocks = <<>>)
            => context_text = <<>> /\ shown = "fallback"

\* C17 as claimed: for a blank question query calls neither the embedder nor
\* the vector store, does not raise and returns the empty result
C17_BlankQuestionRejected ==
    (e_pc \notin {"new", "idle"} /\ BlankQuestion(question)) =>
        /\ embed_calls = 0
        /\ search_calls = 0
        /\ e_raised = "none"
        /\ e_pc = "returned" => result = [question |-> question, contexts |-> <<>>, context_text |-> <<>>]

\* ------------------------------------------------------------------------
\* memory/vector_store.py: VectorStore.upsert_embeddings
\* ------------------------------------------------------------------------
\* upsert_embeddings is given at most MaxEmbedded chunks; vector_dim ranges
\* over 1..MaxDim and the length of an embedding over 1..(MaxDim + 1)
MaxEmbedded == 3
MaxDim == 2
\* upsert_embeddings: the default of batch_size
DefaultBatchSize == 100

\* the EmbeddedChunk objects: chunk_id, page_number, text and an embedding
EmbeddedChunks == [chunk_id : {<<"c", n>> : n \in 1..2}, page_number : {1}, text : {<<"a">>}, embedding : {Rep(0, n) : n \in 1..(MaxDim + 1)}]
EmbeddedLists == UNION {[1..n -> EmbeddedChunks] : n \in 0..MaxEmbedded}
BatchSizes == (1..MaxEmbedded) \cup {DefaultBatchSize}

\* chunks[i : i + batch_size], i 0-based
Batch(cs, b, size) == SubSeq(cs, b + 1, Min(b + size, Len(cs)))

\* "if len(chunk.embedding) != self.vector_dim"
InvalidDim(chunk, vector_dim) == Len(chunk.embedding) # vector_dim

\* client.upsert(points): a point replaces the stored point of its id, and
\* of two points of one id the later stays
Upsert(coll, batch) ==
    LET ids == {Point(batch[k]).id : k \in 1..Len(batch)}
        latest(id) == CHOOSE k \in 1..Len(batch) : Point(batch[k]).id = id /\ \A j \in (k + 1)..Len(batch) : Point(batch[j]).id # id
    IN  {pt \in coll : pt.id \notin ids} \cup {Point(batch[latest(id)]) : id \in ids}

\* VectorStore(collection_name, ..., vector_dim)
NewStore ==
    /\ u_pc = "new"
    /\ \E dim \in 1..MaxDim : store' = [vector_dim |-> dim]
    /\ u_pc' = "idle"
    /\ UNCHANGED <<chunkerVars, queryVars, invocationVars, searchVars, engineVars, graphVars, embedded_chunks, batch_size, batch_start, collection, written, u_raised>>

\* upsert_embeddings(chunks, batch_size) is entered; "if not chunks: return"
UpsertEmbeddings ==
    /\ u_pc = "idle"
    /\ \E cs \in EmbeddedLists, size \in BatchSizes :
        /\ embedded_chunks' = cs
        /\ batch_size' = size
        /\ u_pc' = IF cs = <<>> THEN "returned" ELSE "batches"
    /\ batch_start' = 0
    /\ UNCHANGED <<chunkerVars, queryVars, invocationVars, searchVars, engineVars, graphVars, store, collection, written, u_raised>>

\* one round of "for i in range(0, total, batch_size)": the chunks of the
\* batch are validated one by one while its points are built, then the
\* points are upserted
UpsertBatch ==
    /\ u_pc = "batches"
    /\ batch_start < Len(embedded_chunks)
    /\ LET batch == Batch(embedded_chunks, batch_start, batch_size)
       IN  IF \E k \in 1..Len(batch) : InvalidDim(batch[k], store.vector_dim)
           THEN /\ u_raised' = "ValueError"
                /\ u_pc' = "raised"
                /\ UNCHANGED <<collection, written, batch_start>>
           ELSE /\ collection' = Upsert(collection, batch)
                /\ written' = written \o [k \in 1..Len(batch) |-> batch[k].chunk_id]
                /\ batch_start' = batch_start + batch_size
                /\ UNCHANGED <<u_pc, u_raised>>
    /\ UNCHANGED <<chunkerVars, queryVars, invocationVars, searchVars, engineVars, graphVars, store, embedded_chunks, batch_size>>

\* the loop is over
UpsertReturn ==
    /\ u_pc = "batches"
    /\ batch_start >= Len(embedded_chunks)
    /\ u_pc' = "returned"
    /\ UNCHANGED <<chunkerVars, queryVars, invocationVars, searchVars, engineVars, graphVars, store, embedded_chunks, batch_size, batch_start, collection, written, u_raised>>

UpsertNext == NewStore \/ UpsertEmbeddings \/ UpsertBatch \/ UpsertReturn

SpecUpsert == Init /\ [][UpsertNext]_vars

\* C18 as claimed: when upsert_embeddings raises for an embedding of the
\* wrong length, no point of the call has been upserted
C18_NoWriteBeforeDimensionError ==
    u_raised = "ValueError" => written = <<>> /\ collection = {}

\* ------------------------------------------------------------------------
\* memory/graph_store.py: GraphStore.add_knowledge, and the workers of
\* run_ingestion.py that call it
\* ------------------------------------------------------------------------
\* add_knowledge is called at most MaxCalls times; a document has at most
\* MaxTasks chunks
MaxCalls == 3
MaxTasks == 3
\* ThreadPoolExecutor(max_workers=3)
MaxWorkers == 3

Entity(name, type) == [name |-> name, type |-> type]
Relation(subject, relation, object) == [subject |-> subject, relation |-> relation, object |-> object]
KnowledgeGraph(es, rs) == [entities |-> es, relations |-> rs]

\* the graphs extract_graph returns: empty, entities only, relations only,
\* the same entity and relation twice, the same name with another type
Graphs ==
    {KnowledgeGraph(<<>>, <<>>),
     KnowledgeGraph(<<Entity("B", "Lugar")>>, <<>>),
     KnowledgeGraph(<<>>, <<Relation("B", "r", "A")>>),
     KnowledgeGraph(<<Entity("A", "Pessoa")>>, <<Relation("A", "r", "B")>>),
     KnowledgeGraph(<<Entity("A", "Lugar"), Entity("B", "Pessoa")>>, <<Relation("A", "r", "B")>>),
     KnowledgeGraph(<<Entity("A", "Pessoa"), Entity("A", "Pessoa")>>, <<Relation("A", "r", "B"), Relation("A", "r", "B")>>)}
SourceDocs == {<<"d">>, <<"e">>}
PageNumbers == {1, 2}
AddKnowledgeArgs == [graph : Graphs, source_doc : SourceDocs, page_number : PageNumbers]

\* the database: the two tables and their AUTOINCREMENT counters
Db == [entities |-> entities, relations |-> relations, sqlite_sequence |-> sqlite_sequence]

\* mutant of EntityExists: the column name is not UNIQUE
EntityExists_Never(rows, name) == FALSE

\* entities: name TEXT NOT NULL UNIQUE
EntityExists(rows, name) == \E k \in 1..Len(rows) : rows[k].name = name

\* relations: UNIQUE(subject, relation, object, source_doc)
RelationExists(rows, rel, source_doc) ==
    \E k \in 1..Len(rows) :
        /\ rows[k].subject = rel.subject
        /\ rows[k].relation = rel.relation
        /\ rows[k].object = rel.object
        /\ rows[k].source_doc = source_doc

\* INSERT OR IGNORE INTO entities (name, type): the counter is taken for the
\* ignored row too
InsertEntity(db, entity, t) ==
    LET id == db.sqlite_sequence.entities + 1
    IN  IF EntityExists(db.entities, entity.name)
        THEN [db EXCEPT !.sqlite_sequence.entities = id]
        ELSE [db EXCEPT !.sqlite_sequence.entities = id,
                        !.entities = Append(@, [id |-> id, name |-> entity.name, type |-> entity.type, first_seen |-> t])]

\* INSERT OR IGNORE INTO relations (subject, relation, object, source_doc, page_number)
InsertRelation(db, rel, source_doc, page_number, t) ==
    LET id == db.sqlite_sequence.relations + 1
    IN  IF RelationExists(db.relations, rel, source_doc)
        THEN [db EXCEPT !.sqlite_sequence.relations = id]
        ELSE [db EXCEPT !.sqlite_sequence.relations = id,
                        !.relations = Append(@, [id |-> id, subject |-> rel.subject, relation |-> rel.relation, object |-> rel.object, source_doc |-> source_doc, page_number |-> page_number, timestamp |-> t])]

\* "for entity in graph.entities", from the k-th on
RECURSIVE InsertEntities(_, _, _, _)
InsertEntities(db, es, k, t) ==
    IF k > Len(es) THEN db ELSE InsertEntities(InsertEntity(db, es[k], t), es, k + 1, t)

\* "for rel in graph.relations", from the k-th on
RECURSIVE InsertRelations(_, _, _, _, _, _)
InsertRelations(db, rs, k, source_doc, page_number, t) ==
    IF k > Len(rs) THEN db ELSE InsertRelations(InsertRelation(db, rs[k], source_doc, page_number, t), rs, k + 1, source_doc, page_number, t)

\* add_knowledge(graph, source_doc, page_number) at time t: nothing for the
\* empty graph, else one transaction of the inserts
AddKnowledgeTo(db, a, t) ==
    IF a.graph.entities = <<>> /\ a.graph.relations = <<>> THEN db
    ELSE InsertRelations(InsertEntities(db, a.graph.entities, 1, t), a.graph.relations, 1, a.source_doc, a.page_number, t)

\* add_knowledge(a) is called and commits
Commit(a) ==
    /\ now' = now + 1
    /\ LET db == AddKnowledgeTo(Db, a, now + 1)
       IN  /\ entities' = db.entities
           /\ relations' = db.relations
           /\ sqlite_sequence' = db.sqlite_sequence
    /\ g_args' = a
    /\ applied' = applied \cup {a}

\* graph_store.add_knowledge(graph, source_doc, page_number)
AddKnowledge ==
    /\ now < MaxCalls
    /\ \E a \in AddKnowledgeArgs : Commit(a)
    /\ UNCHANGED <<chunkerVars, queryVars, invocationVars, searchVars, engineVars, upsertVars, tasks, started, running, inferring, completed>>

SpecGraph == Init /\ [][AddKnowledge]_vars

IsPrefix(a, b) == Len(a) <= Len(b) /\ SubSeq(b, 1, Len(a)) = a

\* C19: a call of add_knowledge with arguments it was called with before
\* leaves the rows of entities and relations as they are, and no call
\* deletes or changes a row of either table
C19_AddKnowledgeIdempotent ==
    [][/\ IsPrefix(entities, entities')
       /\ IsPrefix(relations, relations')
       /\ (now' # now /\ g_args' \in applied) => (entities' = entities /\ relations' = relations)]_vars

\* C19 witness: add_knowledge was called three times with one graph of
\* entities and relations, and the tables hold its rows
C19_Witness ==
    /\ now = 3
    /\ Cardinality(applied) = 1
    /\ entities # <<>>
    /\ relations # <<>>
    /\ sqlite_sequence.entities > Len(entities)

\* the _process_entities tasks of one document: for each chunk the graph
\* extract_graph returns for its text, the document and the chunk's page
TaskLists == UNION {[1..n -> [graph : Graphs, source_doc : {<<"d">>}, page_number : PageNumbers]] : n \in 1..MaxTasks}

\* _process_document_pages: executor.submit(self._process_entities, ...) for
\* each chunk
SubmitTasks ==
    /\ tasks = <<>>
    /\ tasks' \in TaskLists
    /\ UNCHANGED <<chunkerVars, queryVars, invocationVars, searchVars, engineVars, upsertVars, entities, relations, sqlite_sequence, now, g_args, applied, started, running, inferring, completed>>

\* a free worker of the pool takes the next submitted task
WorkerTake ==
    /\ started < Len(tasks)
    /\ Cardinality(running) < MaxWorkers
    /\ started' = started + 1
    /\ running' = running \cup {started + 1}
    /\ UNCHANGED <<chunkerVars, queryVars, invocationVars, searchVars, engineVars, upsertVars, entities, relations, sqlite_sequence, now, g_args, applied, tasks, inferring, completed>>

\* extract_graph of a running task: "resposta_bruta =
\* self.llm.generate_answer(messages=messages)" is called on the engine that
\* all workers share. Neither extract_graph nor LLMEngine takes a lock, so
\* the call waits for no other worker.
GenerateAnswer ==
    /\ \E k \in running \ inferring : inferring' = inferring \cup {k}
    /\ UNCHANGED <<chunkerVars, queryVars, invocationVars, searchVars, engineVars, upsertVars, entities, relations, sqlite_sequence, now, g_args, applied, tasks, started, running, completed>>

\* _process_entities of a running task: the call of the engine has ended and
\* extract_graph has answered (the empty graph when the call raised), and
\* add_knowledge is called "if graph.entities or graph.relations"
WorkerAddKnowledge ==
    /\ \E k \in inferring :
        /\ IF tasks[k].graph.entities # <<>> \/ tasks[k].graph.relations # <<>>
           THEN Commit(tasks[k])
           ELSE UNCHANGED <<entities, relations, sqlite_sequence, now, g_args, applied>>
        /\ running' = running \ {k}
        /\ inferring' = inferring \ {k}
        /\ completed' = Append(completed, k)
    /\ UNCHANGED <<chunkerVars, queryVars, invocationVars, searchVars, engineVars, upsertVars, tasks, started>>

IngestNext == SubmitTasks \/ WorkerTake \/ GenerateAnswer \/ WorkerAddKnowledge

SpecIngest == Init /\ [][IngestNext]_vars

\* the database after the add_knowledge calls of the first n tasks, made in
\* the order of submission
RECURSIVE InSubmissionOrder(_)
InSubmissionOrder(n) ==
    IF n = 0 THEN [entities |-> <<>>, relations |-> <<>>, sqlite_sequence |-> [entities |-> 0, relations |-> 0]]
    ELSE AddKnowledgeTo(InSubmissionOrder(n - 1), tasks[n], n)

\* the stored facts and the stored entities
Facts(rows) == {[subject |-> rows[k].subject, relation |-> rows[k].relation, object |-> rows[k].object, source_doc |-> rows[k].source_doc, page_number |-> rows[k].page_number] : k \in 1..Len(rows)}
StoredEntities(rows) == {[name |-> rows[k].name, type |-> rows[k].type] : k \in 1..Len(rows)}

\* C20 as claimed: when all tasks of a document are done, the stored facts
\* and the stored entities are the same in whatever order the add_knowledge
\* calls committed: the ones of the calls made in the order of submission
C20_SameGraphForEveryOrder ==
    (tasks # <<>> /\ Len(completed) = Len(tasks)) =>
        /\ Facts(relations) = Facts(InSubmissionOrder(Len(tasks)).relations)
        /\ StoredEntities(entities) = StoredEntities(InSubmissionOrder(Len(tasks)).entities)

\* C21 as claimed: the engine is a single execution slot: at no time are two
\* workers of the pool inside a call of the shared engine's generate_answer
C21_OneInferenceAtATime == Cardinality(inferring) <= 1

\* the places of text where sub occurs
Occurrences(text, sub) == {q \in 1..(Len(text) - Len(sub) + 1) : text[q] = sub[1] /\ SubSeq(text, q, q + Len(sub) - 1) = sub}

\* the citation of a chunk: its document and its page
Citation(chunk) == <<"#", "#", "#", SP, "F", "o", "n", "t", "e", ":", SP>> \o chunk.source_name \o <<SP, "|", SP, "P", "á", "g", "i", "n", "a", SP>> \o IntToStr(chunk.page_number) \o <<SP, "|", SP>>

\* the indexed chunk a returned context comes from
ChunkOf(ctx) == IndexedChunk(CHOOSE c \in 1..2 : IndexedChunk(c).chunk_id = ctx.chunk_id)

\* C22 as claimed: every block of context_text (the blocks are those of the
\* first contexts returned, one per "###") cites the document and the page
\* of the chunk it was made from
C22_BlocksCiteSourceAndPage ==
    e_pc = "returned" =>
        \A k \in 1..Cardinality(Occurrences(result.context_text, <<"#", "#", "#">>)) :
            Occurrences(result.context_text, Citation(ChunkOf(result.contexts[k]))) # {}

\* C23 as claimed: the number of candidates query() asks of the Vector Store
\* is greater than top_k, whatever top_k the engine was built with
C23_FunnelWiderThanTopK == search_calls > 0 => initial_top_k > engine.top_k

\* ------------------------------------------------------------------------
\* Two invocations of query() on one QueryEngine
\* ------------------------------------------------------------------------
Invocations == {1, 2}
\* the Vector Store has at most MaxIndexed candidates for a question
MaxIndexed == 2

InvocationQuestions == {<<"q">>, <<"r">>}
InvocationTopKs == {1, MainTopK}

\* the collaborators, which answer a request the same way whenever it is
\* made: the embedder returns or raises, the Vector Store has a candidate
\* list for each question, the re-ranking service scores a document by its
\* text, or fails, or answers without scores
IndexedLists == {hs \in HitLists : Len(hs) <= MaxIndexed /\ \A k \in 1..Len(hs) : hs[k] \in {Hit(1, 35), Hit(2, 90)}}
Rerankers == [kind : {"ok"}, scores : [{Hit(1, 35).text, Hit(2, 90).text} -> RerankScores]] \cup [kind : {"ConnectionError", "no_scores"}]
Collaborators == [engine : [top_k : InvocationTopKs, max_context_chars : {DefaultMaxContextChars}], embedder : {"ok", "AttributeError"}, index : [InvocationQuestions -> IndexedLists], reranker : Rerankers]

\* a QueryEngine has been constructed over its collaborators, and no
\* invocation of query() has begun
InvocationsInit ==
    /\ ChunkerInit
    /\ QueryIdle
    /\ SearchIdle
    /\ EngineIdle
    /\ UpsertIdle
    /\ GraphIdle
    /\ shared \in Collaborators
    /\ frames = [n \in Invocations |-> NoFrame]

\* mutant of SetLocal: the variable is a field of the engine, the same for
\* every invocation
SetLocal_OnSelf(fs, n, name, value) == [m \in DOMAIN fs |-> [fs[m] EXCEPT ![name] = value]]

\* an assignment to a local variable of invocation n
SetLocal(fs, n, name, value) == [fs EXCEPT ![n][name] = value]

\* the scores the service answers for the documents of a request
ScoresOf(reranker, rs) == [k \in 1..Len(rs) |-> reranker.scores[rs[k].text]]

\* query(question) is entered by invocation n
InvQuery(n) ==
    /\ frames[n].pc = "idle"
    /\ \E q \in InvocationQuestions : frames' = [frames EXCEPT ![n].question = q, ![n].pc = "embed"]
    /\ UNCHANGED shared

\* _embed_query
InvEmbedQuery(n) ==
    /\ frames[n].pc = "embed"
    /\ frames' = IF shared.embedder = "ok"
                 THEN [frames EXCEPT ![n].pc = "search"]
                 ELSE [frames EXCEPT ![n].pc = "raised", ![n].raised = shared.embedder]
    /\ UNCHANGED shared

\* initial_results = self.vector_store.search(...), and the return of the
\* empty result "if not initial_results"
InvSearch(n) ==
    /\ frames[n].pc = "search"
    /\ LET rs == shared.index[frames[n].question]
           searched == SetLocal(frames, n, "initial_results", rs)
       IN  frames' = IF rs = <<>>
                     THEN [SetLocal(searched, n, "result", [question |-> frames[n].question, contexts |-> <<>>, context_text |-> <<>>]) EXCEPT ![n].pc = "returned"]
                     ELSE [searched EXCEPT ![n].pc = "rerank"]
    /\ UNCHANGED shared

\* reranked_results = self._rerank_results(question, initial_results)
InvRerank(n) ==
    /\ frames[n].pc = "rerank"
    /\ LET rs == frames[n].initial_results
       IN  frames' = IF shared.reranker.kind = "ok"
                     THEN [SetLocal(frames, n, "reranked_results", RerankSorted(rs, ScoresOf(shared.reranker, rs))) EXCEPT ![n].pc = "assemble"]
                     ELSE IF shared.reranker.kind \in RequestFailures
                     THEN [SetLocal(frames, n, "reranked_results", RerankFallback(rs)) EXCEPT ![n].pc = "assemble"]
                     ELSE [frames EXCEPT ![n].pc = "raised", ![n].raised = "KeyError"]
    /\ UNCHANGED shared

\* from "final_results = reranked_results[:self.top_k]" to the return
InvAssemble(n) ==
    /\ frames[n].pc = "assemble"
    /\ LET final_results == Take(frames[n].reranked_results, shared.engine.top_k)
           contexts == PostProcess(final_results)
           answer == [question |-> frames[n].question, contexts |-> contexts, context_text |-> BuildContextText(contexts, shared.engine.max_context_chars)]
       IN  frames' = [SetLocal(frames, n, "result", answer) EXCEPT ![n].pc = "returned"]
    /\ UNCHANGED shared

InvocationsNext ==
    /\ \E n \in Invocations : InvQuery(n) \/ InvEmbedQuery(n) \/ InvSearch(n) \/ InvRerank(n) \/ InvAssemble(n)
    /\ UNCHANGED <<chunkerVars, queryVars, searchVars, engineVars, memoryVars>>

SpecInvocations == InvocationsInit /\ [][InvocationsNext]_vars

\* what query(q) answers when it runs alone over the collaborators c
QueryAlone(c, q) ==
    IF c.embedder # "ok" THEN [raised |-> c.embedder, result |-> NoResult]
    ELSE IF c.index[q] = <<>> THEN [raised |-> "none", result |-> [question |-> q, contexts |-> <<>>, context_text |-> <<>>]]
    ELSE IF c.reranker.kind \notin {"ok"} \cup RequestFailures THEN [raised |-> "KeyError", result |-> NoResult]
    ELSE LET reranked == IF c.reranker.kind = "ok" THEN RerankSorted(c.index[q], ScoresOf(c.reranker, c.index[q])) ELSE RerankFallback(c.index[q])
             contexts == PostProcess(Take(reranked, c.engine.top_k))
         IN  [raised |-> "none", result |-> [question |-> q, contexts |-> contexts, context_text |-> BuildContextText(contexts, c.engine.max_context_chars)]]

\* C24: no step of an invocation of query() changes the engine or its
\* collaborators, and an invocation that has ended, however its steps were
\* interleaved with those of the other, has returned or raised what
\* query() of its question returns or raises when it runs alone
C24_InvocationsDoNotInterfere ==
    [][/\ shared' = shared
       /\ \A n \in Invocations :
            frames'[n].pc \in {"returned", "raised"} =>
                /\ frames'[n].raised = QueryAlone(shared, frames'[n].question).raised
                /\ frames'[n].result = QueryAlone(shared, frames'[n].question).result]_vars

\* invocation 2 has returned contexts while invocation 1, of another
\* question, holds other re-ranked candidates and has yet to assemble them
C24_Witness ==
    /\ frames # <<>>
    /\ frames[1].pc = "assemble" /\ frames[2].pc = "returned"
    /\ frames[1].question # frames[2].question
    /\ frames[2].result.contexts # <<>>
    /\ frames[1].reranked_results # frames[2].reranked_results

\* C25 as claimed: the paragraph loop ends: after a flush the retried
\* paragraph fits the buffer, no two commits in a row are of the same
\* paragraphs of the page, and the loop is never where it commits the
\* buffer, rebuilds it and retries for ever
C25_ParagraphLoopTerminates ==
    /\ (pc = "loop" /\ last \in {"FlushCommitted", "FlushDropped"}) =>
        current_len + AddedLen(Len(Para), current_paras) <= chunker.max_chars
    /\ \A k \in 1..(Len(origin) - 1) :
        ~(origin[k].kind = "buffer" /\ origin[k + 1].kind = "buffer" /\ origin[k].idx = origin[k + 1].idx)
    /\ ~LoopsForever

\* C26: forced slicing loses no text: the first window starts at the start
\* of the paragraph, every window starts at or before the end of the one
\* before it, the last one ends at the end of the paragraph, and every
\* character of the paragraph that is not whitespace lies in a window whose
\* stripped text is among the slices returned
C26_SlicingCoversParagraph ==
    /\ \A k \in 1..Len(windows) :
        /\ k = 1 => windows[k].start = 0
        /\ k > 1 => windows[k].start <= windows[k - 1].end
    /\ (pc = "slice" /\ windows # <<>>) => start <= windows[Len(windows)].end
    /\ last = "SplitReturn" =>
        /\ windows # <<>>
        /\ windows[Len(windows)].end = Len(paragraphs[i])
        /\ \A q \in 1..Len(paragraphs[i]) :
            ~IsSpace(paragraphs[i][q]) =>
                \E k \in 1..Len(windows) :
                    /\ windows[k].start < q /\ q <= windows[k].end
                    /\ Strip(Slice(paragraphs[i], windows[k].start, windows[k].end)) \in Range(blocks)

\* C26 witness: a slicing has returned whose windows overlap in one place
\* and only touch in another, and one of whose windows was cut at a space
C26_Witness ==
    /\ last = "SplitReturn"
    /\ \E k \in 2..Len(windows) : windows[k].start < windows[k - 1].end
    /\ \E k \in 2..Len(windows) : windows[k].start = windows[k - 1].end
    /\ \E k \in 1..Len(windows) : windows[k].end < Len(paragraphs[i]) /\ paragraphs[i][windows[k].end + 1] = SP /\ windows[k].end - windows[k].start < chunker.max_chars

\* C27 as claimed: every window of a forced slicing ends after the end of
\* the window before it, and once a window has reached the end of the
\* paragraph no further window is taken
C27_EveryWindowEndsLater ==
    /\ \A k \in 2..Len(windows) : windows[k].end > windows[k - 1].end
    /\ (pc = "slice" /\ windows # <<>> /\ windows[Len(windows)].end = Len(Para)) => ~(start < Len(Para))

\* the texts of the chunks of page number n in the list returned
RECURSIVE TextsOfPage(_, _)
TextsOfPage(cs, n) ==
    IF cs = <<>> THEN <<>>
    ELSE (IF cs[1].page_number = n THEN <<cs[1].text>> ELSE <<>>) \o TextsOfPage(Tail(cs), n)

\* C28: pages are segmented one by one and in order: every page starts with
\* an empty buffer and an empty list; every chunk of a page has the number of
\* that page and a text made of paragraphs of that page; when a page is
\* finished its chunks are the end of the list of chunk_pages, after the
\* chunks of the pages before it; and two pages of equal text give chunks of
\* equal texts, whatever page came before
C28_PagesSegmentedIndependently ==
    /\ last = "ChunkSinglePage" => current_paras = <<>> /\ current_len = 0 /\ page_chunks = <<>> /\ i = 0
    /\ pc \in {"loop", "slice"} =>
        \A k \in 1..Len(page_chunks) :
            /\ page_chunks[k].page_number = pages[p].page_number
            /\ origin[k].kind = "buffer" => page_chunks[k].text = Join(ParasAt(origin[k].idx))
            /\ origin[k].kind = "forced" => \A j \in origin[k].idx : Occurrences(paragraphs[j + 1], page_chunks[k].text) # {}
    /\ last = "FinishPage" =>
        /\ Len(chunks) >= Len(page_chunks)
        /\ SubSeq(chunks, Len(chunks) - Len(page_chunks) + 1, Len(chunks)) = page_chunks
        /\ \A k \in 1..(Len(chunks) - Len(page_chunks)) : \E n \in 1..(p - 1) : chunks[k].page_number = pages[n].page_number
    /\ \A j, k \in 1..Len(chunks) : j < k => chunks[j].page_number <= chunks[k].page_number
    /\ pc = "done" =>
        \A m, n \in 1..Len(pages) :
            pages[m].text = pages[n].text => TextsOfPage(chunks, pages[m].page_number) = TextsOfPage(chunks, pages[n].page_number)

\* C28 witness: a call on two pages of the same text has returned two chunks
\* for each page
C28_Witness ==
    /\ pc = "done"
    /\ Len(pages) = 2
    /\ pages[1].text = pages[2].text
    /\ Len(TextsOfPage(chunks, pages[1].page_number)) = 2
    /\ Len(TextsOfPage(chunks, pages[2].page_number)) = 2

\* the chunk ids among the candidates
DistinctChunkIds(rs) == {rs[k].chunk_id : k \in 1..Len(rs)}

\* C29 as claimed: query() returns min(top_k, number of distinct chunk ids
\* among the candidates of the Vector Store) contexts
C29_ContextsFillTopK ==
    (e_pc = "returned" /\ search_calls = 1) =>
        Len(result.contexts) = Min(engine.top_k, Cardinality(DistinctChunkIds(initial_results)))

\* the place of candidate k in the re-ranked list: after the candidates of
\* a greater score and after the earlier candidates of the same score
RerankedPlace(k) ==
    1 + Cardinality({j \in 1..Len(response_scores) : response_scores[j] > response_scores[k]})
      + Cardinality({j \in 1..(k - 1) : response_scores[j] = response_scores[k]})

\* when the service has answered one score per document, the re-ranked list
\* holds every candidate once, candidate k with score k as its rerank_score
\* and otherwise as the search returned it, by rerank_score descending and,
\* of equal scores, in the order of the search
RerankedByScore ==
    rerank_call = "ok" =>
        /\ Len(response_scores) = Len(initial_results)
        /\ Len(reranked_results) = Len(initial_results)
        /\ \A k \in 1..Len(initial_results) :
            LET r == reranked_results[RerankedPlace(k)]
            IN  /\ DOMAIN r = DOMAIN initial_results[k] \cup {"rerank_score"}
                /\ r.rerank_score = response_scores[k]
                /\ \A f \in DOMAIN initial_results[k] : r[f] = initial_results[k][f]
        /\ \A k \in 2..Len(reranked_results) : reranked_results[k - 1].rerank_score >= reranked_results[k].rerank_score

\* the first top_k of the re-ranked list
FirstTopK == SubSeq(reranked_results, 1, Min(engine.top_k, Len(reranked_results)))

\* C30 as claimed: the re-ranked list is the candidates by rerank_score, and
\* query() returns the first top_k of it
C30_ReturnsFirstTopKReranked ==
    /\ RerankedByScore
    /\ (e_pc = "returned" /\ rerank_call = "ok") => result.contexts = FirstTopK

\* C30 as amended: the re-ranked list is the candidates by rerank_score, and
\* query() returns the first top_k of it without those whose chunk id an
\* earlier one of them has: the first top_k themselves when their chunk ids
\* differ
C30_ReturnsFirstTopKDeduplicated ==
    /\ RerankedByScore
    /\ (e_pc = "returned" /\ rerank_call = "ok") =>
        LET keep == FirstOccurrences(FirstTopK)
        IN  /\ Len(result.contexts) = Cardinality(keep)
            /\ \A k \in 1..Len(result.contexts) : result.contexts[k] = FirstTopK[Nth(keep, k)]
            /\ Cardinality(keep) = Len(FirstTopK) => result.contexts = FirstTopK

\* C30 witness: three candidates were re-ranked, the last two with the same
\* score, greater than the first's; top_k = 2 has cut the list, and the two
\* contexts returned are the second and the third candidate, in that order
C30_Witness ==
    /\ e_pc = "returned"
    /\ rerank_call = "ok"
    /\ Len(initial_results) = 3
    /\ response_scores[1] < response_scores[2] /\ response_scores[2] = response_scores[3]
    /\ initial_results[2] # initial_results[3]
    /\ engine.top_k = 2
    /\ Len(result.contexts) = 2
    /\ result.contexts[1].chunk_id = initial_results[2].chunk_id
    /\ result.contexts[2].chunk_id = initial_results[3].chunk_id

====
